---- MODULE Spec2Model ----
(***************************************************************************)
(* A model of the agendo route handlers: the calendar booking route, the   *)
(* calendar availability route, the Twilio webhook, the Evolution webhook, *)
(* the frontend Evolution webhook, the Google authorization flow, the send *)
(* routes, instance creation and the connect page's polling.  Every        *)
(* handler is an async                                                     *)
(* function; it is cut into one action per stretch of code between two     *)
(* awaits, so that requests interleave exactly where the event loop lets   *)
(* them interleave.                                                        *)
(***************************************************************************)
EXTENDS Integers, Sequences, FiniteSets, TLC

NULL == "null"

\* A time field that the request body does not carry.
NoTime == 0 - 1

Instances == {"i1", "i2"}

\* ---------------------------------------------------------------------
\* Bounds of the model
\* ---------------------------------------------------------------------
MaxBookings == 2
BookHorizon == 2
MaxAvail == 1
MaxEvents == 2
MaxTwilio == 2
MaxEvo == 2
MaxEvoMsgs == 1
MaxFront == 1
MaxFrontMsgs == 2
MaxIdLen == 2
MaxSend == 2
MaxCreate == 2
MaxInFlight == 2

BookIds == 1..MaxBookings
BookTimes == 0..BookHorizon
AvailIds == 1..MaxAvail
TwilioIds == 1..MaxTwilio
EvoIds == 1..MaxEvo
FrontIds == 1..MaxFront
SendIds == 1..MaxSend
CreateIds == 1..MaxCreate

\* The dates a request asks about (day numbers), and the values that stand for
\* a missing and an unparseable `date` parameter.
Dates == {1}
NoDate == 0 - 1
BadDate == 0 - 2

\* The server's offset from UTC in hours (local = UTC + offset): UTC and Bogota.
TZHours == {0, 0 - 5}

\* The events the calendar owner may already have: start hour (UTC, on the
\* requested date), start minute and duration in minutes.
EventHours == {8, 9, 14}
EventMinutes == {0, 30}
EventDurations == {30, 60}

VARIABLES
    storedTokens,    \* the credential store read by getStoredTokens
    refreshInFlight, \* per instance, the upstream token refreshes in flight
    calendarEvents,  \* the events of the external (Google) calendars
    nextEventId,     \* the id the calendar gives to the next inserted event
    calendarLog,     \* the calendar API calls made so far, in order
    bookings,        \* the booking requests and where each handler stands
    tzOffset,        \* the server's local time zone offset, in hours
    availReqs,       \* the availability requests and where each handler stands
    publicWebhookUrl, \* process.env.PUBLIC_WEBHOOK_URL
    twilio,          \* the deliveries to the Twilio webhook
    twilioMessages,  \* the messages created through client.messages.create
    evo,             \* the deliveries to the Evolution webhook
    evoSends,        \* the send requests made by sendAutoReply
    front,           \* the deliveries to the frontend Evolution webhook
    frontForwards,   \* the requests made to the backend's webhook endpoint
    oauth,           \* the Google authorization flow and where it stands
    sendEnv,         \* which of the send routes' environment variables are set
    sendReqs,        \* the requests to the send routes
    creates,         \* the requests to create a gateway instance
    page             \* the connect page: its state and its polling timer

credVars == <<storedTokens, refreshInFlight>>
calVars == <<credVars, calendarEvents, nextEventId, calendarLog>>
availVars == <<tzOffset, availReqs>>
twilioVars == <<publicWebhookUrl, twilio, twilioMessages>>
evoVars == <<evo, evoSends>>
frontVars == <<front, frontForwards>>
sendVars == <<sendEnv, sendReqs>>
clientVars == <<sendVars, creates, page>>
vars == <<calVars, bookings, availVars, twilioVars, evoVars, frontVars, oauth, clientVars>>

\* What the handlers of one route leave alone.
notBooking == <<availVars, twilioVars, evoVars, frontVars, oauth, clientVars>>
notAvail == <<bookings, twilioVars, evoVars, frontVars, oauth, clientVars>>
notTwilio == <<calVars, bookings, availVars, evoVars, frontVars, oauth, clientVars>>
notEvo == <<calVars, bookings, availVars, twilioVars, frontVars, oauth, clientVars>>
notFront == <<calVars, bookings, availVars, twilioVars, evoVars, oauth, clientVars>>
notOAuth == <<calVars, bookings, availVars, twilioVars, evoVars, frontVars, clientVars>>
notClient == <<calVars, bookings, availVars, twilioVars, evoVars, frontVars, oauth>>
notSend == <<notClient, creates, page>>
notCreate == <<notClient, sendVars, page>>
notPage == <<notClient, sendVars, creates>>

\* ---------------------------------------------------------------------
\* Calendar booking route
\* ---------------------------------------------------------------------

\* Half-open interval overlap of two events' [start, end).
Overlaps(e1, e2) == e1.start < e2.end /\ e2.start < e1.end

getStoredTokens(instance) == storedTokens[instance]

\* The stored access token is inside the refresh margin or past its expiry.
needsRefresh(tokens) == tokens = "expired"

\* Every caller that finds the token stale issues a refresh of its own.
startRefreshEach(instance) ==
    [refreshInFlight EXCEPT ![instance] = @ + 1]

\* Single flight: a caller that finds the token stale issues the upstream
\* refresh unless one is in flight for the instance, which it then awaits.
startRefresh(instance) ==
    [refreshInFlight EXCEPT ![instance] = 1]

NoBooking ==
    [pc |-> "none", instance |-> NULL, title |-> NULL, startTime |-> NoTime,
     endTime |-> NoTime, status |-> 0, eventId |-> 0, parsed |-> FALSE]

BookRespond(r, st, id) ==
    bookings' = [bookings EXCEPT ![r].pc = "done", ![r].status = st, ![r].eventId = id]

MissingBookingField(b) ==
    b.instance = NULL \/ b.title = NULL \/ b.startTime = NoTime \/ b.endTime = NoTime

\* request.json() rejects: the catch block answers 500 (a SyntaxError has no code).
BookingMalformed(r) ==
    /\ bookings[r].pc = "none"
    /\ BookRespond(r, 500, 0)
    /\ UNCHANGED <<calVars, notBooking>>

\* POST up to `await getStoredTokens(instance)`.
BookingPOST(r) ==
    /\ bookings[r].pc = "none"
    /\ \E inst \in Instances \cup {NULL}, ttl \in {NULL, "cita"},
          s \in BookTimes \cup {NoTime}, e \in BookTimes \cup {NoTime} :
          /\ (s # NoTime /\ e # NoTime) => s < e
          /\ LET b == [NoBooking EXCEPT !.instance = inst, !.title = ttl,
                                        !.startTime = s, !.endTime = e,
                                        !.parsed = TRUE]
             IN  IF MissingBookingField(b)
                 THEN bookings' = [bookings EXCEPT
                          ![r] = [NoBooking EXCEPT !.pc = "done", !.status = 400,
                                                   !.parsed = TRUE]]
                 ELSE bookings' = [bookings EXCEPT ![r] = [b EXCEPT !.pc = "tokens"]]
    /\ UNCHANGED <<calVars, notBooking>>

\* The handler without the `if (!storedTokens)` block.
BookingTokensUnchecked(r) ==
    /\ bookings[r].pc = "tokens"
    /\ bookings' = [bookings EXCEPT ![r].pc = "insert"]
    /\ UNCHANGED <<calVars, notBooking>>

\* After getStoredTokens: 401 without tokens, else the event is built and
\* calendar.events.insert is called.
BookingTokens(r) ==
    /\ bookings[r].pc = "tokens"
    /\ LET storedTokens_ == getStoredTokens(bookings[r].instance)
       IN  IF storedTokens_ = NULL
           THEN BookRespond(r, 401, 0) /\ UNCHANGED refreshInFlight
           ELSE IF needsRefresh(storedTokens_)
           THEN /\ bookings' = [bookings EXCEPT ![r].pc = "refresh"]
                /\ refreshInFlight' = startRefresh(bookings[r].instance)
           ELSE /\ bookings' = [bookings EXCEPT ![r].pc = "insert"]
                /\ UNCHANGED refreshInFlight
    /\ UNCHANGED <<storedTokens, calendarEvents, nextEventId, calendarLog, notBooking>>

\* calendar.events.insert succeeds: the calendar holds the new event and the
\* handler answers success with its id.
BookingInsertOK(r) ==
    /\ bookings[r].pc = "insert"
    /\ calendarEvents' = calendarEvents \cup
           {[id |-> nextEventId, instance |-> bookings[r].instance,
             start |-> bookings[r].startTime, end |-> bookings[r].endTime]}
    /\ nextEventId' = nextEventId + 1
    /\ calendarLog' = Append(calendarLog,
           [op |-> "insert", by |-> <<"book", r>>, ok |-> TRUE])
    /\ BookRespond(r, 200, nextEventId)
    /\ UNCHANGED <<credVars, notBooking>>

\* calendar.events.insert rejects: 400 for an error carrying a code, else 500.
BookingInsertFail(r) ==
    /\ bookings[r].pc = "insert"
    /\ \E st \in {400, 500} : BookRespond(r, st, 0)
    /\ calendarLog' = Append(calendarLog,
           [op |-> "insert", by |-> <<"book", r>>, ok |-> FALSE])
    /\ UNCHANGED <<credVars, calendarEvents, nextEventId, notBooking>>


BookIdle == bookings = [r \in BookIds |-> NoBooking]

\* ---------------------------------------------------------------------
\* Calendar availability route
\* ---------------------------------------------------------------------

\* for (let hour = 9; hour < 18; hour++)
WorkStartHour == 9
WorkEndHour == 18

\* new Date(`${date}T${hh}:00:00`): a date-time without offset is local time;
\* the instant, in minutes since 00:00 UTC of day 0.
LocalDate(date, hour, tz) == ((date * 24 + hour) - tz) * 60

\* new Date(`${date}T00:00:00.000Z`): a UTC date-time.
UTCDate(date, hour, minute) == (date * 24 + hour) * 60 + minute

\* A closed-interval comparison in place of the half-open one.
isOccupiedClosed(slotStart, slotEnd, busySlots) ==
    \E busy \in busySlots : slotStart <= busy.end /\ slotEnd >= busy.start

\* busySlots.some(busy => slotStart < busyEnd && slotEnd > busyStart)
isOccupied(slotStart, slotEnd, busySlots) ==
    \E busy \in busySlots : slotStart < busy.end /\ slotEnd > busy.start

\* The loop with unshift in place of push.
RECURSIVE availableSlotsUnshift(_, _, _, _, _)
availableSlotsUnshift(hour, date, tz, busySlots, acc) ==
    IF hour < WorkEndHour
    THEN LET slotStart == LocalDate(date, hour, tz)
             slotEnd == LocalDate(date, hour + 1, tz)
         IN  availableSlotsUnshift(hour + 1, date, tz, busySlots,
                 IF ~isOccupied(slotStart, slotEnd, busySlots)
                 THEN <<[start |-> slotStart, end |-> slotEnd,
                         available |-> TRUE]>> \o acc
                 ELSE acc)
    ELSE acc

\* The loop pushing every slot of the day, occupied ones flagged unavailable.
RECURSIVE availableSlotsFlagged(_, _, _, _, _)
availableSlotsFlagged(hour, date, tz, busySlots, acc) ==
    IF hour < WorkEndHour
    THEN LET slotStart == LocalDate(date, hour, tz)
             slotEnd == LocalDate(date, hour + 1, tz)
         IN  availableSlotsFlagged(hour + 1, date, tz, busySlots,
                 Append(acc, [start |-> slotStart, end |-> slotEnd,
                              available |-> ~isOccupied(slotStart, slotEnd, busySlots)]))
    ELSE acc

\* The loop with `hour <= 18` in place of `hour < 18`.
RECURSIVE availableSlotsInclusive(_, _, _, _, _)
availableSlotsInclusive(hour, date, tz, busySlots, acc) ==
    IF hour <= WorkEndHour
    THEN LET slotStart == LocalDate(date, hour, tz)
             slotEnd == LocalDate(date, hour + 1, tz)
         IN  availableSlotsInclusive(hour + 1, date, tz, busySlots,
                 IF ~isOccupied(slotStart, slotEnd, busySlots)
                 THEN Append(acc, [start |-> slotStart, end |-> slotEnd,
                                   available |-> TRUE])
                 ELSE acc)
    ELSE acc

\* The loop over the hours of the working day: a slot is pushed, flagged
\* available, when no busy slot occupies it.
RECURSIVE availableSlotsFrom(_, _, _, _, _)
availableSlotsFrom(hour, date, tz, busySlots, acc) ==
    IF hour < WorkEndHour
    THEN LET slotStart == LocalDate(date, hour, tz)
             slotEnd == LocalDate(date, hour + 1, tz)
         IN  availableSlotsFrom(hour + 1, date, tz, busySlots,
                 IF ~isOccupied(slotStart, slotEnd, busySlots)
                 THEN Append(acc, [start |-> slotStart, end |-> slotEnd,
                                   available |-> TRUE])
                 ELSE acc)
    ELSE acc

\* calendar.events.list({timeMin, timeMax, singleEvents}): the events of the
\* instance's primary calendar that end after timeMin and start before
\* timeMax, mapped to {start, end}.  timeMax is 23:59:59.999Z of the date.
eventsList(instance, date) ==
    LET timeMin == UTCDate(date, 0, 0)
        endOfDay == UTCDate(date + 1, 0, 0)
    IN  {[start |-> ev.start, end |-> ev.end] :
            ev \in {e \in calendarEvents :
                       /\ e.instance = instance
                       /\ e.end > timeMin
                       /\ e.start < endOfDay}}

NoAvail ==
    [pc |-> "none", instance |-> NULL, date |-> NoDate, status |-> 0,
     busySlots |-> {}, availableSlots |-> <<>>]

AvailRespond(a, st) ==
    availReqs' = [availReqs EXCEPT ![a].pc = "done", ![a].status = st]

\* With tokens in hand: an unparseable date makes toISOString throw (500),
\* else calendar.events.list is called.
AvailAfterTokens(req) ==
    IF req.date = BadDate
    THEN [req EXCEPT !.pc = "done", !.status = 500]
    ELSE [req EXCEPT !.pc = "list"]

\* GET up to `await getStoredTokens(instance)`.
AvailGET(a) ==
    /\ availReqs[a].pc = "none"
    /\ \E inst \in Instances \cup {NULL}, date \in Dates \cup {NoDate, BadDate} :
          IF inst = NULL \/ date = NoDate
          THEN AvailRespond(a, 400)
          ELSE availReqs' = [availReqs EXCEPT ![a] =
                   [NoAvail EXCEPT !.pc = "tokens", !.instance = inst, !.date = date]]
    /\ UNCHANGED <<calVars, tzOffset, notAvail>>

\* After getStoredTokens: 401 without tokens; an unparseable date makes
\* toISOString throw (500); else calendar.events.list is called.
AvailTokens(a) ==
    /\ availReqs[a].pc = "tokens"
    /\ LET storedTokens_ == getStoredTokens(availReqs[a].instance)
       IN  IF storedTokens_ = NULL
           THEN AvailRespond(a, 401) /\ UNCHANGED refreshInFlight
           ELSE IF needsRefresh(storedTokens_)
           THEN /\ availReqs' = [availReqs EXCEPT ![a].pc = "refresh"]
                /\ refreshInFlight' = startRefresh(availReqs[a].instance)
           ELSE /\ availReqs' = [availReqs EXCEPT ![a] = AvailAfterTokens(@)]
                /\ UNCHANGED refreshInFlight
    /\ UNCHANGED <<storedTokens, calendarEvents, nextEventId, calendarLog,
                   tzOffset, notAvail>>

\* calendar.events.list resolves: the busy slots are mapped, the slots of the
\* day are computed and the handler answers success.
AvailListOK(a) ==
    /\ availReqs[a].pc = "list"
    /\ LET busySlots == eventsList(availReqs[a].instance, availReqs[a].date)
       IN  availReqs' = [availReqs EXCEPT
               ![a].pc = "done", ![a].status = 200,
               ![a].busySlots = busySlots,
               ![a].availableSlots =
                   availableSlotsFrom(WorkStartHour, availReqs[a].date, tzOffset,
                                      busySlots, <<>>)]
    /\ calendarLog' = Append(calendarLog,
           [op |-> "list", by |-> <<"avail", a>>, ok |-> TRUE])
    /\ UNCHANGED <<credVars, calendarEvents, nextEventId, tzOffset, notAvail>>

\* A failed fetch taken for a calendar without events.
AvailListFailAsEmpty(a) ==
    /\ availReqs[a].pc = "list"
    /\ availReqs' = [availReqs EXCEPT
           ![a].pc = "done", ![a].status = 200,
           ![a].availableSlots =
               availableSlotsFrom(WorkStartHour, availReqs[a].date, tzOffset, {}, <<>>)]
    /\ calendarLog' = Append(calendarLog,
           [op |-> "list", by |-> <<"avail", a>>, ok |-> FALSE])
    /\ UNCHANGED <<credVars, calendarEvents, nextEventId, tzOffset, notAvail>>

\* calendar.events.list rejects: the catch block answers 500.
AvailListFail(a) ==
    /\ availReqs[a].pc = "list"
    /\ AvailRespond(a, 500)
    /\ calendarLog' = Append(calendarLog,
           [op |-> "list", by |-> <<"avail", a>>, ok |-> FALSE])
    /\ UNCHANGED <<credVars, calendarEvents, nextEventId, tzOffset, notAvail>>

AvailIdle == availReqs = [a \in AvailIds |-> NoAvail]

\* ---------------------------------------------------------------------
\* Credential store: the refresh of an instance's access token
\* ---------------------------------------------------------------------

\* The requests of either route that await the refresh of an instance.
AwaitsRefresh(req, instance) == req.pc = "refresh" /\ req.instance = instance

\* The upstream refresh succeeds: the store holds the fresh token and every
\* caller awaiting the refresh goes on with it to its calendar call.
RefreshOK(instance) ==
    /\ refreshInFlight[instance] > 0
    /\ storedTokens' = [storedTokens EXCEPT ![instance] = "tokens"]
    /\ refreshInFlight' = [refreshInFlight EXCEPT ![instance] = 0]
    /\ bookings' = [r \in BookIds |->
           IF AwaitsRefresh(bookings[r], instance)
           THEN [bookings[r] EXCEPT !.pc = "insert"] ELSE bookings[r]]
    /\ availReqs' = [a \in AvailIds |->
           IF AwaitsRefresh(availReqs[a], instance)
           THEN AvailAfterTokens(availReqs[a]) ELSE availReqs[a]]
    /\ UNCHANGED <<calendarEvents, nextEventId, calendarLog, tzOffset,
                   twilioVars, evoVars, frontVars, oauth, clientVars>>

\* The upstream refresh fails: every caller awaiting it gets NotConnected,
\* which the handlers answer with 401; the stale token is not handed out.
RefreshFail(instance) ==
    /\ refreshInFlight[instance] > 0
    /\ refreshInFlight' = [refreshInFlight EXCEPT ![instance] = 0]
    /\ bookings' = [r \in BookIds |->
           IF AwaitsRefresh(bookings[r], instance)
           THEN [bookings[r] EXCEPT !.pc = "done", !.status = 401] ELSE bookings[r]]
    /\ availReqs' = [a \in AvailIds |->
           IF AwaitsRefresh(availReqs[a], instance)
           THEN [availReqs[a] EXCEPT !.pc = "done", !.status = 401] ELSE availReqs[a]]
    /\ UNCHANGED <<storedTokens, calendarEvents, nextEventId, calendarLog, tzOffset,
                   twilioVars, evoVars, frontVars, oauth, clientVars>>

\* The events a calendar owner created by other means than this program.
OwnerEvents ==
    {[id |-> 0, instance |-> "i1",
      start |-> UTCDate(d, h, m), end |-> UTCDate(d, h, m) + len] :
        d \in Dates, h \in EventHours, m \in EventMinutes, len \in EventDurations}


\* ---------------------------------------------------------------------
\* Twilio webhook
\* ---------------------------------------------------------------------

MessageSids == {"SM1", "SM2"}
Senders == {"whatsapp:+571", "whatsapp:+572"}

\* The x-twilio-signature header: absent, or present and right or wrong for
\* the request under the account's auth token.
Signatures == {"none", "valid", "invalid"}

\* sends, sendTo: the calls of client.messages.create made for the delivery
\* and the `to` of the call.
NoDelivery ==
    [pc |-> "none", MessageSid |-> NULL, From |-> NULL, signature |-> "none",
     status |-> 0, processed |-> FALSE, sends |-> 0, sendTo |-> NULL]

\* The reply is sent whether or not the message names its sender.
hasFromAlways(from) == TRUE

\* if (!From) return
hasFrom(from) == from # NULL

\* validateRequest(authToken, twilioSignature, publicWebhookUrl, messageData)
validateRequest(signature) == signature = "valid"

\* The signature block checking whenever a signature could be wrong, webhook
\* URL or not.
signatureRejectedWithoutUrl(signature, url) ==
    IF signature # "none"
    THEN ~validateRequest(signature)
    ELSE url # NULL

\* The signature block of POST: the request is rejected when the check runs
\* and fails; the check runs only with a signature header and a webhook URL.
signatureRejected(signature, url) ==
    IF signature # "none" /\ url # NULL
    THEN ~validateRequest(signature)
    ELSE FALSE

\* Deliveries are numbered in their order of arrival.
\* POST, with the part of processMessageAsync that runs before its first
\* await: the body is read and parsed, the signature checked, the response
\* built, and processMessageAsync started (it returns at once without From,
\* else it calls client.messages.create and suspends).
TwilioPOST(d) ==
    /\ twilio[d].pc = "none"
    /\ \A e \in TwilioIds : e < d => twilio[e].pc # "none"
    /\ \E sid \in MessageSids, from \in Senders \cup {NULL}, sig \in Signatures :
          LET m == [NoDelivery EXCEPT !.MessageSid = sid, !.From = from,
                                      !.signature = sig]
          IN  IF signatureRejected(sig, publicWebhookUrl)
              THEN twilio' = [twilio EXCEPT ![d] =
                       [m EXCEPT !.pc = "done", !.status = 401]]
              ELSE IF hasFrom(from)
              THEN twilio' = [twilio EXCEPT ![d] =
                       [m EXCEPT !.pc = "sending", !.status = 200, !.processed = TRUE,
                                 !.sends = 1, !.sendTo = from]]
              ELSE twilio' = [twilio EXCEPT ![d] =
                       [m EXCEPT !.pc = "done", !.status = 200, !.processed = TRUE]]
    /\ UNCHANGED <<publicWebhookUrl, twilioMessages, notTwilio>>

\* client.messages.create resolves: the reply exists, its SID is logged.
TwilioSendOK(d) ==
    /\ twilio[d].pc = "sending"
    /\ twilioMessages' = Append(twilioMessages, [to |-> twilio[d].sendTo, by |-> d])
    /\ twilio' = [twilio EXCEPT ![d].pc = "done"]
    /\ UNCHANGED <<publicWebhookUrl, notTwilio>>

\* client.messages.create rejects: the catch block logs the error.
TwilioSendFail(d) ==
    /\ twilio[d].pc = "sending"
    /\ twilio' = [twilio EXCEPT ![d].pc = "done"]
    /\ UNCHANGED <<publicWebhookUrl, twilioMessages, notTwilio>>

TwilioIdle ==
    /\ twilio = [d \in TwilioIds |-> NoDelivery]
    /\ twilioMessages = <<>>

\* ---------------------------------------------------------------------
\* Evolution webhook
\* ---------------------------------------------------------------------

SeqsUpTo(S, n) == UNION {[1..k -> S] : k \in 0..n}

EvoMessages ==
    {[messageType |-> "conversation", remoteJid |-> "571@s.whatsapp.net", text |-> "hola"],
     [messageType |-> "conversation", remoteJid |-> "120@g.us", text |-> "hola"],
     [messageType |-> "extendedTextMessage", remoteJid |-> "571@s.whatsapp.net", text |-> "hola"],
     [messageType |-> "imageMessage", remoteJid |-> "571@s.whatsapp.net", text |-> NULL]}

\* The request bodies: text that is no JSON, the JSON value null, and objects
\* {event, instance, data}.  `data` may be absent; for messages.upsert it
\* either carries a `messages` list or is itself one message.
EvoBody(json, event, data, state, messages) ==
    [json |-> json, event |-> event, data |-> data, state |-> state,
     messages |-> messages]

EvoBodies ==
    {EvoBody("malformed", NULL, "undefined", NULL, <<>>),
     EvoBody("null", NULL, "undefined", NULL, <<>>)}
    \cup {EvoBody("object", ev, "undefined", NULL, <<>>) :
            ev \in {"connection.update", "messages.upsert", "qrcode.updated",
                    "presence.update"}}
    \cup {EvoBody("object", "connection.update", "object", st, <<>>) :
            st \in {"open", "close", "connecting"}}
    \cup {EvoBody("object", ev, "object", NULL, <<>>) :
            ev \in {"qrcode.updated", "presence.update"}}
    \cup {EvoBody("object", "messages.upsert", "list", NULL, ms) :
            ms \in SeqsUpTo(EvoMessages, MaxEvoMsgs)}
    \cup {EvoBody("object", "messages.upsert", "message", NULL, <<m>>) :
            m \in EvoMessages}

NoEvo ==
    [pc |-> "none", body |-> EvoBody("null", NULL, "undefined", NULL, <<>>),
     status |-> 0, log |-> "none", logged |-> 0]

\* handleConnectionUpdate: what it logs; reading data.state of an absent data
\* throws into processWebhookAsync's catch block.
handleConnectionUpdate(body) ==
    IF body.data = "undefined" THEN "error"
    ELSE IF body.state = "open" THEN "connected"
    ELSE IF body.state = "close" THEN "disconnected"
    ELSE "connection"

IsGroup(jid) == jid = "120@g.us"

\* handleIncomingMessage: the number of messages it logs as incoming.  Its
\* own try/catch swallows the TypeError of an absent data.
handleIncomingMessage(body) ==
    IF body.data = "undefined" THEN 0
    ELSE Cardinality({i \in DOMAIN body.messages :
            LET message == body.messages[i]
            IN  /\ message.messageType \in {"conversation", "extendedTextMessage"}
                /\ message.text # NULL
                /\ message.remoteJid # NULL
                /\ ~IsGroup(message.remoteJid)})

\* POST, with the part of processWebhookAsync that runs before its first
\* await.  request.json() rejecting leads to the catch block (500); else the
\* response is built, processWebhookAsync is called and the response returned.
EvoPOST(d) ==
    /\ evo[d].pc = "none"
    /\ \E body \in EvoBodies :
          LET m == [NoEvo EXCEPT !.body = body]
          IN  IF body.json = "malformed"
              THEN evo' = [evo EXCEPT ![d] = [m EXCEPT !.pc = "done", !.status = 500]]
              ELSE IF body.json = "null"
              THEN evo' = [evo EXCEPT ![d] =
                       [m EXCEPT !.pc = "done", !.status = 200, !.log = "error"]]
              ELSE IF body.event = "connection.update"
              THEN evo' = [evo EXCEPT ![d] =
                       [m EXCEPT !.pc = "done", !.status = 200,
                                 !.log = handleConnectionUpdate(body)]]
              ELSE IF body.event = "messages.upsert"
              THEN evo' = [evo EXCEPT ![d] =
                       [m EXCEPT !.pc = "processing", !.status = 200,
                                 !.log = "messages",
                                 !.logged = handleIncomingMessage(body)]]
              ELSE IF body.event = "qrcode.updated"
              THEN evo' = [evo EXCEPT ![d] =
                       [m EXCEPT !.pc = "done", !.status = 200, !.log = "qr"]]
              ELSE evo' = [evo EXCEPT ![d] =
                       [m EXCEPT !.pc = "done", !.status = 200, !.log = "unhandled"]]
    /\ UNCHANGED <<evoSends, notEvo>>

\* handleIncomingMessage with the auto-reply switched on: a logged message is
\* answered through sendAutoReply.
EvoProcessedAutoReply(d) ==
    /\ evo[d].pc = "processing"
    /\ evo' = [evo EXCEPT ![d].pc = "done"]
    /\ evoSends' = IF evo[d].logged > 0 THEN Append(evoSends, [by |-> d]) ELSE evoSends
    /\ UNCHANGED notEvo

\* processWebhookAsync resumes after `await handleIncomingMessage(...)` and ends.
EvoProcessed(d) ==
    /\ evo[d].pc = "processing"
    /\ evo' = [evo EXCEPT ![d].pc = "done"]
    /\ UNCHANGED <<evoSends, notEvo>>

EvoIdle ==
    /\ evo = [d \in EvoIds |-> NoEvo]
    /\ evoSends = <<>>

\* ---------------------------------------------------------------------
\* Frontend Evolution webhook
\* ---------------------------------------------------------------------

FrontMessages ==
    {[fromMe |-> fm, content |-> c] : fm \in BOOLEAN, c \in {NULL, "hola"}}

FrontBody(json, event, messages) ==
    [json |-> json, event |-> event, messages |-> messages]

\* webhookData.data?.messages || [] : an absent list is the empty list.
FrontBodies ==
    {FrontBody("malformed", NULL, <<>>), FrontBody("null", NULL, <<>>),
     FrontBody("object", "connection.update", <<>>)}
    \cup {FrontBody("object", "presence.update", ms) :
            ms \in SeqsUpTo(FrontMessages, 1)}
    \cup {FrontBody("object", "messages.upsert", ms) :
            ms \in SeqsUpTo(FrontMessages, MaxFrontMsgs)}

\* lastFetch: how the last fetch to the backend settled, as the handler logs it.
NoFront ==
    [pc |-> "none", body |-> FrontBody("null", NULL, <<>>), index |-> 0, status |-> 0,
     lastFetch |-> "none"]

\* The fetch resolves with an ok response, resolves with another status, or
\* rejects.
FetchOutcomes == {"ok", "notok", "rejected"}

\* Every event is taken for a message event.
isAnyEvent(event) == TRUE

\* if (webhookData.event === 'messages.upsert')
isMessageEvent(event) == event = "messages.upsert"

\* The incoming messages with content, which the loop forwards.
forwarded(message) == ~message.fromMe /\ message.content # NULL

\* The loop `for (const message of messages)` from position i on: the first
\* message it forwards, or 0 when it runs to the end of the list.
RECURSIVE nextForward(_, _)
nextForward(messages, i) ==
    IF i > Len(messages) THEN 0
    ELSE IF forwarded(messages[i]) THEN i
    ELSE nextForward(messages, i + 1)

\* The loop goes on from position i of delivery d with body `body`: it awaits
\* the fetch to the backend for the next forwarded message, or the handler
\* answers 200.
FrontLoop(d, cur, i) ==
    LET j == nextForward(cur.body.messages, i)
    IN  IF j = 0
        THEN /\ front' = [front EXCEPT ![d] = [cur EXCEPT !.pc = "done", !.status = 200]]
             /\ UNCHANGED frontForwards
        ELSE /\ front' = [front EXCEPT ![d] = [cur EXCEPT !.pc = "forwarding", !.index = j]]
             /\ frontForwards' = Append(frontForwards,
                    [by |-> d, index |-> j, payload |-> cur.body.messages])

\* POST up to its first await of fetch, or to its response.  request.json()
\* rejecting, and reading `event` of null, lead to the catch block (500).
FrontPOST(d) ==
    /\ front[d].pc = "none"
    /\ \E body \in FrontBodies :
          LET m == [NoFront EXCEPT !.body = body]
          IN  IF body.json \in {"malformed", "null"}
              THEN /\ front' = [front EXCEPT ![d] = [m EXCEPT !.pc = "done", !.status = 500]]
                   /\ UNCHANGED frontForwards
              ELSE IF isMessageEvent(body.event)
              THEN FrontLoop(d, m, 1)
              ELSE /\ front' = [front EXCEPT ![d] = [m EXCEPT !.pc = "done", !.status = 200]]
                   /\ UNCHANGED frontForwards
    /\ UNCHANGED notFront

\* The fetch without the inner try/catch: a rejection reaches the handler's
\* catch block.
FrontFetchDoneUncaught(d) ==
    /\ front[d].pc = "forwarding"
    /\ \E outcome \in FetchOutcomes :
          IF outcome = "rejected"
          THEN /\ front' = [front EXCEPT ![d].pc = "done", ![d].status = 500,
                                         ![d].lastFetch = outcome]
               /\ UNCHANGED frontForwards
          ELSE FrontLoop(d, [front[d] EXCEPT !.lastFetch = outcome], front[d].index + 1)
    /\ UNCHANGED notFront

\* The fetch settles (ok, not ok, or rejected: each branch only logs) and the
\* loop goes on with the next message.
FrontFetchDone(d) ==
    /\ front[d].pc = "forwarding"
    /\ \E outcome \in FetchOutcomes :
          FrontLoop(d, [front[d] EXCEPT !.lastFetch = outcome], front[d].index + 1)
    /\ UNCHANGED notFront

FrontIdle ==
    /\ front = [d \in FrontIds |-> NoFront]
    /\ frontForwards = <<>>

\* ---------------------------------------------------------------------
\* Google authorization: the authorize and callback routes of the two apps
\* ---------------------------------------------------------------------

\* The characters of an instance id: a letter, two characters with a meaning
\* in a query string, and the quote of JSON.
IdChars == {"a", "&", "+", "\""}

\* The values of the `instance` parameter; the empty one stands for a
\* request without it.
InstanceIds == SeqsUpTo(IdChars, MaxIdLen)

\* The app of src/app (state is the instance id) and the frontend app (state
\* is a JSON text).
Apps == {"app", "frontend"}

\* The characters of a URL's query: written as they are, or percent-escaped.
Lit(c) == [esc |-> FALSE, c |-> c]
Esc(c) == [esc |-> TRUE, c |-> c]

\* The characters percent-encoding leaves alone (letters and digits).
Unreserved == {"a", "e", "k", "q", "r", "t"}

\* encodeURIComponent(str)
encodeURIComponent(str) ==
    [i \in 1..Len(str) |-> IF str[i] \in Unreserved THEN Lit(str[i]) ELSE Esc(str[i])]

\* url.searchParams.set(name, value), as the URL is serialized: a space is
\* written "+", every other reserved character is escaped.
formEncode(str) ==
    [i \in 1..Len(str) |->
        IF str[i] \in Unreserved THEN Lit(str[i])
        ELSE IF str[i] = " " THEN Lit("+") ELSE Esc(str[i])]

\* `${value}` inside the template literal of a URL: the characters as they are.
interpolate(str) == [i \in 1..Len(str) |-> Lit(str[i])]

\* The text of one parameter name with its "=".
Param(name) == <<Lit(name)>>
Amp == <<Lit("&")>>

\* searchParams.get(name) on a query: the first pair with that name, up to
\* the next "&", with "+" read as a space and escapes undone; the empty
\* string when there is no such pair.
searchParamsGet(query, name) ==
    LET starts == {i \in 1..Len(query) :
                      /\ query[i] = Lit(name)
                      /\ i = 1 \/ query[i - 1] = Lit("&")}
    IN  IF starts = {} THEN <<>>
        ELSE LET i == CHOOSE x \in starts : \A y \in starts : x <= y
                 ends == {j \in (i + 1)..(Len(query) + 1) :
                             j = Len(query) + 1 \/ query[j] = Lit("&")}
                 end == CHOOSE x \in ends : \A y \in ends : x <= y
             IN  [k \in 1..(end - i - 1) |->
                     LET t == query[i + k]
                     IN  IF t.esc THEN t.c ELSE IF t.c = "+" THEN " " ELSE t.c]

\* The text of a JSON string: quotes are escaped with a backslash.
RECURSIVE escapeJSON(_)
escapeJSON(str) ==
    IF str = <<>> THEN <<>>
    ELSE (IF Head(str) = "\"" THEN <<"\\", "\"">> ELSE <<Head(str)>>)
         \o escapeJSON(Tail(str))

\* JSON.stringify({instanceName, requestId}); "k" and "q" stand for the two
\* member names with their colons.
JSONstringify(instanceName) ==
    <<"{", "k", "\"">> \o escapeJSON(instanceName)
        \o <<"\"", ",", "q", "\"", "r", "\"", "}">>

\* The string that starts at position i of a JSON text, up to its closing quote.
RECURSIVE readJSONString(_, _)
readJSONString(text, i) ==
    IF i > Len(text) \/ text[i] = "\"" THEN <<>>
    ELSE IF text[i] = "\\" /\ i < Len(text)
    THEN <<text[i + 1]>> \o readJSONString(text, i + 2)
    ELSE <<text[i]>> \o readJSONString(text, i + 1)

\* JSON.parse(state).instanceName; a text that is no JSON object throws.
JSONparse(text) ==
    IF Len(text) >= 3 /\ text[1] = "{" /\ text[2] = "k" /\ text[3] = "\""
    THEN [ok |-> TRUE, instanceName |-> readJSONString(text, 4)]
    ELSE [ok |-> FALSE, instanceName |-> <<>>]

\* pc: where the flow stands; status: the answer of the authorize route;
\* authUrl: the query of the authorization URL; callback: the query Google
\* sends the browser back with; state: the callback's `state`; credentials:
\* the instance the exchanged tokens are kept for; redirect: the query of the
\* callback's redirect to /setup.
NoOAuth ==
    [pc |-> "none", app |-> "app", instance |-> <<>>, status |-> 0,
     authUrl |-> <<>>, callback |-> <<>>, state |-> <<>>, instanceName |-> <<>>,
     credentials |-> <<>>, redirect |-> <<>>]

OAuthIdle == oauth = NoOAuth

\* GET of the authorize route: 500 when the frontend has no client id, 400
\* without instance, else the authorization URL with `state`.
AuthorizeGET ==
    /\ oauth.pc = "none"
    /\ \E app \in Apps, instance \in InstanceIds, configured \in BOOLEAN :
          LET m == [NoOAuth EXCEPT !.app = app, !.instance = instance]
          IN  IF app = "frontend" /\ ~configured
              THEN oauth' = [m EXCEPT !.pc = "done", !.status = 500]
              ELSE IF instance = <<>>
              THEN oauth' = [m EXCEPT !.pc = "done", !.status = 400]
              ELSE oauth' = [m EXCEPT !.pc = "consent", !.status = 200,
                       !.authUrl = Param("state=") \o
                           (IF app = "app"
                            THEN encodeURIComponent(instance)
                            ELSE formEncode(JSONstringify(instance)))]
    /\ UNCHANGED notOAuth

\* Google sends the browser back to the callback with a code, or with an
\* error when consent was refused, and with the state it was given.
GoogleConsent ==
    /\ oauth.pc = "consent"
    /\ \E granted \in BOOLEAN :
          oauth' = [oauth EXCEPT
              !.pc = "callback",
              !.callback =
                  (IF granted THEN Param("code=") \o <<Lit("c")>>
                   ELSE Param("error=") \o <<Lit("access_denied")>>)
                  \o Amp \o Param("state=")
                  \o encodeURIComponent(searchParamsGet(oauth.authUrl, "state="))]
    /\ UNCHANGED notOAuth

\* userInfo.data.email
Email == <<"e", "@">>

\* The redirects of the app's callback: the state is put into the URL as it is.
AppRedirect(state, rest) == Param("instance=") \o interpolate(state) \o Amp \o rest

OAuthRedirect(cur, redirect) ==
    oauth' = [cur EXCEPT !.pc = "done", !.status = 307, !.redirect = redirect]

\* The frontend's catch block: /setup?error=oauth_failed&message=...
FrontendFailed == Param("error=") \o <<Lit("oauth_failed")>>

\* GET of the callback route up to its first await.
CallbackGET ==
    /\ oauth.pc = "callback"
    /\ LET code == searchParamsGet(oauth.callback, "code=")
           state == searchParamsGet(oauth.callback, "state=")
           error == searchParamsGet(oauth.callback, "error=")
           cur == [oauth EXCEPT !.state = state]
       IN  IF oauth.app = "app"
           THEN IF error # <<>>
                THEN OAuthRedirect(cur, AppRedirect(state,
                         Param("google_error=") \o interpolate(error)))
                ELSE IF code = <<>> \/ state = <<>>
                THEN oauth' = [cur EXCEPT !.pc = "done", !.status = 400]
                ELSE oauth' = [cur EXCEPT !.pc = "getToken"]
           ELSE IF error # <<>>
                THEN OAuthRedirect(cur, Param("error=") \o <<Lit("oauth_error")>>)
                ELSE IF code = <<>> \/ state = <<>>
                THEN OAuthRedirect(cur, Param("error=") \o <<Lit("invalid_request")>>)
                ELSE LET stateData == JSONparse(state)
                     IN  IF stateData.ok
                         THEN oauth' = [cur EXCEPT !.pc = "getToken",
                                  !.instanceName = stateData.instanceName]
                         ELSE OAuthRedirect(cur, FrontendFailed)
    /\ UNCHANGED notOAuth

\* The awaits of the callback, in order: the token exchange, the user's
\* profile and, in the app, the list of calendars.
AfterAwait(app, pc) ==
    IF pc = "getToken" THEN "userinfo"
    ELSE IF pc = "userinfo" /\ app = "app" THEN "calendarList"
    ELSE "done"

\* An await of the callback resolves; after the last one the credentials are
\* put together for the instance and the browser is sent back to /setup.
CallbackAwaitOK ==
    /\ oauth.pc \in {"getToken", "userinfo", "calendarList"}
    /\ IF AfterAwait(oauth.app, oauth.pc) # "done"
       THEN oauth' = [oauth EXCEPT !.pc = AfterAwait(oauth.app, oauth.pc)]
       ELSE IF oauth.app = "app"
       THEN OAuthRedirect([oauth EXCEPT !.credentials = oauth.state],
                AppRedirect(oauth.state,
                    Param("google_success=") \o <<Lit("true")>> \o Amp
                    \o Param("email=") \o encodeURIComponent(Email)))
       ELSE OAuthRedirect([oauth EXCEPT !.credentials = oauth.instanceName],
                Param("instance=") \o formEncode(oauth.instanceName) \o Amp
                \o Param("step=") \o <<Lit("agent")>> \o Amp
                \o Param("calendar_success=") \o <<Lit("true")>> \o Amp
                \o Param("user_email=") \o formEncode(Email))
    /\ UNCHANGED notOAuth

\* An await of the callback rejects (or the response is not ok): the catch
\* block redirects to /setup with an error.
CallbackAwaitFail ==
    /\ oauth.pc \in {"getToken", "userinfo", "calendarList"}
    /\ IF oauth.app = "app"
       THEN OAuthRedirect(oauth, AppRedirect(oauth.state,
                Param("google_error=") \o <<Lit("token_exchange_failed")>>))
       ELSE OAuthRedirect(oauth, FrontendFailed)
    /\ UNCHANGED notOAuth

\* ---------------------------------------------------------------------
\* Outbound send routes
\* ---------------------------------------------------------------------

\* The instance send route of the gateway proxy, the frontend's test-send
\* route and the app's Twilio send route.
SendRoutes == {"instance", "frontend", "twilio"}

\* A field of the request body: absent, the empty string, or a value.
FieldValues == {NULL, "", "x"}

NoSend ==
    [pc |-> "none", route |-> NULL, to |-> NULL, text |-> NULL, json |-> FALSE,
     status |-> 0, calls |-> 0]

SendIdle == sendReqs = [r \in SendIds |-> NoSend]

\* `!v` of a string field.
falsy(v) == v = NULL \/ v = ""

\* The check without its second operand.
missingSendFieldToOnly(s) == falsy(s.to)

\* if (!to || !text), if (!to || !body)
missingSendField(s) == falsy(s.to) \/ falsy(s.text)

\* The module of the instance send route throws while loading when the
\* gateway's URL or key is unset, so the route serves no request then.
RouteLoaded(route) == route = "instance" => sendEnv.evolution

SendRespond(r, cur, st) ==
    sendReqs' = [sendReqs EXCEPT ![r] = [cur EXCEPT !.pc = "done", !.status = st]]

\* The body is not JSON: request.json() rejects and the catch block answers
\* 500 (the frontend route may answer its configuration error first).
SendMalformed(r) ==
    /\ sendReqs[r].pc = "none"
    /\ \E route \in SendRoutes :
          /\ RouteLoaded(route)
          /\ SendRespond(r, [NoSend EXCEPT !.route = route], 500)
    /\ UNCHANGED <<sendEnv, notSend>>

\* POST of a send route up to its first outbound await.
SendPOST(r) ==
    /\ sendReqs[r].pc = "none"
    /\ \E route \in SendRoutes, to \in FieldValues, text \in FieldValues :
          /\ RouteLoaded(route)
          /\ LET s == [NoSend EXCEPT !.route = route, !.to = to, !.text = text,
                                     !.json = TRUE]
             IN  IF route = "frontend" /\ ~sendEnv.evolution
                 THEN SendRespond(r, s, 500)
                 ELSE IF missingSendField(s)
                 THEN SendRespond(r, s, 400)
                 ELSE IF route = "twilio" /\ ~sendEnv.whatsappFrom
                 THEN SendRespond(r, s, 500)
                 ELSE IF route = "frontend"
                 THEN sendReqs' = [sendReqs EXCEPT ![r] = [s EXCEPT !.pc = "instances"]]
                 ELSE sendReqs' = [sendReqs EXCEPT
                          ![r] = [s EXCEPT !.pc = "vendor", !.calls = 1]]
    /\ UNCHANGED <<sendEnv, notSend>>

\* The frontend route's lookup of a connected instance through its own API
\* returns: 400 without one (a failed lookup is caught and counts as none),
\* else the message goes to the gateway.
SendInstancesDone(r) ==
    /\ sendReqs[r].pc = "instances"
    /\ \E instanceName \in {NULL, "i1"} :
          IF instanceName = NULL
          THEN SendRespond(r, sendReqs[r], 400)
          ELSE sendReqs' = [sendReqs EXCEPT ![r].pc = "vendor", ![r].calls = @ + 1]
    /\ UNCHANGED <<sendEnv, notSend>>

\* The vendor accepted the message.
SendVendorOK(r) ==
    /\ sendReqs[r].pc = "vendor"
    /\ SendRespond(r, sendReqs[r], 200)
    /\ UNCHANGED <<sendEnv, notSend>>

\* The vendor refused the message or the call rejected: the gateway's own
\* status or 500; for Twilio 400 when the error carries a code, else 500.
SendVendorFail(r) ==
    /\ sendReqs[r].pc = "vendor"
    /\ \E st \in (IF sendReqs[r].route = "twilio" THEN {400, 500}
                  ELSE {400, 404, 500}) :
          SendRespond(r, sendReqs[r], st)
    /\ UNCHANGED <<sendEnv, notSend>>

\* ---------------------------------------------------------------------
\* Instance creation route
\* ---------------------------------------------------------------------

\* How an outbound call ends: a 2xx response, another response, or a
\* rejection (of the fetch or of reading the body).
CallOutcomes == {"ok", "notok", "rejected"}

NoCreate ==
    [pc |-> "none", name |-> NULL, webhookUrl |-> NULL, status |-> 0,
     calls |-> <<>>, create |-> NULL, webhook |-> NULL, sync |-> NULL]

CreateIdle == creates = [r \in CreateIds |-> NoCreate]

CreateRespond(r, cur, st) ==
    creates' = [creates EXCEPT ![r] = [cur EXCEPT !.pc = "done", !.status = st]]

\* request.json() rejects: the outer catch answers 500.
CreateMalformed(r) ==
    /\ creates[r].pc = "none"
    /\ CreateRespond(r, NoCreate, 500)
    /\ UNCHANGED notCreate

\* POST up to the fetch of ${EVOLUTION_API_URL}/instance/create.
CreatePOST(r) ==
    /\ creates[r].pc = "none"
    /\ \E name \in {NULL, "t1"}, webhookUrl \in {NULL, "u"} :
          LET c == [NoCreate EXCEPT !.name = name, !.webhookUrl = webhookUrl]
          IN  IF falsy(name) \/ falsy(webhookUrl)
              THEN CreateRespond(r, c, 400)
              ELSE creates' = [creates EXCEPT
                       ![r] = [c EXCEPT !.pc = "create", !.calls = <<"create">>]]
    /\ UNCHANGED notCreate

\* The create call returns: a rejection goes to the outer catch (500), a
\* response that is not ok is passed on with its status, and after an ok
\* response the webhook of the instance is configured.
CreateFetchDone(r) ==
    /\ creates[r].pc = "create"
    /\ \E outcome \in CallOutcomes :
          LET c == [creates[r] EXCEPT !.create = outcome]
          IN  IF outcome = "rejected"
              THEN CreateRespond(r, c, 500)
              ELSE IF outcome = "notok"
              THEN \E st \in {403, 500} : CreateRespond(r, c, st)
              ELSE creates' = [creates EXCEPT
                       ![r] = [c EXCEPT !.pc = "webhook",
                                        !.calls = Append(@, "webhook")]]
    /\ UNCHANGED notCreate

\* The handler without the try block around the webhook configuration.
CreateWebhookDoneUncaught(r) ==
    /\ creates[r].pc = "webhook"
    /\ \E outcome \in CallOutcomes :
          LET c == [creates[r] EXCEPT !.webhook = outcome]
          IN  IF outcome = "rejected"
              THEN CreateRespond(r, c, 500)
              ELSE creates' = [creates EXCEPT
                       ![r] = [c EXCEPT !.pc = "sync", !.calls = Append(@, "sync")]]
    /\ UNCHANGED notCreate

\* The webhook call returns, whichever way: it is logged, and the instance
\* is synchronised with the backend.
CreateWebhookDone(r) ==
    /\ creates[r].pc = "webhook"
    /\ \E outcome \in CallOutcomes :
          creates' = [creates EXCEPT
              ![r] = [creates[r] EXCEPT !.webhook = outcome, !.pc = "sync",
                                        !.calls = Append(@, "sync")]]
    /\ UNCHANGED notCreate

\* The sync call returns, whichever way: the handler answers success.
CreateSyncDone(r) ==
    /\ creates[r].pc = "sync"
    /\ \E outcome \in CallOutcomes :
          CreateRespond(r, [creates[r] EXCEPT !.sync = outcome], 200)
    /\ UNCHANGED notCreate

\* ---------------------------------------------------------------------
\* Connect page: connection-state polling
\* ---------------------------------------------------------------------

\* const maxPolls = 40 (frontend), const maxPolls = 60 (app)
maxPolls(app) == IF app = "frontend" THEN 40 ELSE 60

NoPage ==
    [pc |-> "idle", app |-> "app", status |-> "idle", rendered |-> "idle",
     timer |-> FALSE, pollCount |-> 0, inFlight |-> 0, opened |-> FALSE,
     stopped |-> FALSE]

PageIdle == page = NoPage

\* createInstance, run by the click on the idle page.  The handlers it
\* starts close over the connectionState of the render they were made in.
PageCreateInstance ==
    /\ page.pc = "idle"
    /\ \E app \in Apps :
          page' = [page EXCEPT !.pc = "create", !.app = app,
                               !.rendered = page.status, !.status = "creating"]
    /\ UNCHANGED notPage

\* The create request returns: an error is shown, or getQRCode is scheduled
\* and requests the QR code.
PageCreateDone ==
    /\ page.pc = "create"
    /\ \E ok \in BOOLEAN :
          IF ok THEN page' = [page EXCEPT !.pc = "qr"]
          ELSE page' = [page EXCEPT !.pc = "done", !.status = "error"]
    /\ UNCHANGED notPage

\* The QR request returns: the code is shown and pollConnectionState starts
\* the interval, or an error is shown.
PageQRDone ==
    /\ page.pc = "qr"
    /\ \E ok \in BOOLEAN :
          IF ok THEN page' = [page EXCEPT !.pc = "polling", !.status = "qr-ready",
                                          !.timer = TRUE]
          ELSE page' = [page EXCEPT !.pc = "done", !.status = "error"]
    /\ UNCHANGED notPage

\* The interval fires: pollCount++ and checkState() up to its fetch.  The
\* timer does not wait for the checks of earlier ticks.
PollTick ==
    /\ page.timer
    /\ page.inFlight < MaxInFlight
    /\ page' = [page EXCEPT !.pollCount = @ + 1, !.inFlight = @ + 1]
    /\ UNCHANGED notPage

\* What checkState returns and the status it sets, by what the state
\* request brought: "open", another state, a 404, or a rejection.
CheckOutcomes == {"open", "close", "404", "rejected"}

shouldStop(app, outcome) ==
    outcome = "open" \/ (app = "frontend" /\ outcome = "404")

\* The timeout test of the frontend's interval callback; connectionState is
\* the one of the render the callback was made in.
timedOut(p) ==
    p.app = "frontend" /\ p.pollCount >= maxPolls(p.app) /\ p.rendered # "connected"

\* A state request returns and the interval callback runs to its end:
\* checkState sets the status, then the interval is cleared when the check
\* said so or the count is used up, and the frontend shows the timeout.
PollCheckDone ==
    /\ page.inFlight > 0
    /\ \E outcome \in CheckOutcomes :
          LET stop == shouldStop(page.app, outcome)
              checked == IF outcome = "open" THEN "connected"
                         ELSE IF stop THEN "error"
                         ELSE page.status
              clear == stop \/ page.pollCount >= maxPolls(page.app)
          IN  page' = [page EXCEPT
                  !.inFlight = @ - 1,
                  !.opened = @ \/ outcome = "open",
                  !.stopped = @ \/ stop,
                  !.timer = @ /\ ~clear,
                  !.pc = IF clear THEN "done" ELSE @,
                  !.status = IF clear /\ timedOut(page) THEN "error" ELSE checked]
    /\ UNCHANGED notPage

ClientsIdle ==
    /\ sendEnv = [evolution |-> TRUE, whatsappFrom |-> TRUE]
    /\ SendIdle /\ CreateIdle /\ PageIdle

\* ---------------------------------------------------------------------
\* Specifications
\* ---------------------------------------------------------------------

NoRefresh == refreshInFlight = [i \in Instances |-> 0]

TokensInit ==
    /\ storedTokens \in [Instances -> {NULL, "tokens"}]
    /\ NoRefresh

CalendarIdle ==
    /\ calendarEvents = {}
    /\ nextEventId = 1
    /\ calendarLog = <<>>
    /\ tzOffset = 0

BookInit ==
    /\ TokensInit /\ CalendarIdle /\ BookIdle /\ AvailIdle
    /\ publicWebhookUrl = NULL /\ TwilioIdle /\ EvoIdle /\ FrontIdle /\ OAuthIdle /\ ClientsIdle

BookNext ==
    \E r \in BookIds :
        \/ BookingMalformed(r)
        \/ BookingPOST(r)
        \/ BookingTokens(r)
        \/ BookingInsertOK(r)
        \/ BookingInsertFail(r)

SpecBook == BookInit /\ [][BookNext]_vars

AvailInit ==
    /\ TokensInit
    /\ calendarEvents \in {E \in SUBSET OwnerEvents : Cardinality(E) <= MaxEvents}
    /\ nextEventId = 1
    /\ calendarLog = <<>>
    /\ tzOffset \in TZHours
    /\ BookIdle /\ AvailIdle
    /\ publicWebhookUrl = NULL /\ TwilioIdle /\ EvoIdle /\ FrontIdle /\ OAuthIdle /\ ClientsIdle

AvailNext ==
    \E a \in AvailIds :
        \/ AvailGET(a)
        \/ AvailTokens(a)
        \/ AvailListOK(a)
        \/ AvailListFail(a)

SpecAvail == AvailInit /\ [][AvailNext]_vars

\* Servers west and east of UTC (Los Angeles, UTC, Sydney), and hour-long
\* events of the owner at the edges of the requested date: 23:00 UTC of the
\* day before, 09:00 UTC, and 01:00 UTC of the day after.
ZoneHours == {0 - 8, 0, 10}
EdgeHours == {0 - 1, 9, 25}

EdgeEvents ==
    {[id |-> 0, instance |-> "i1",
      start |-> UTCDate(d, h, 0), end |-> UTCDate(d, h + 1, 0)] :
        d \in Dates, h \in EdgeHours}

ZonesInit ==
    /\ TokensInit
    /\ calendarEvents \in {E \in SUBSET EdgeEvents : Cardinality(E) <= MaxEvents}
    /\ nextEventId = 1
    /\ calendarLog = <<>>
    /\ tzOffset \in ZoneHours
    /\ BookIdle /\ AvailIdle
    /\ publicWebhookUrl = NULL /\ TwilioIdle /\ EvoIdle /\ FrontIdle /\ OAuthIdle /\ ClientsIdle

SpecAvailZones == ZonesInit /\ [][AvailNext]_vars

\* The two calendar routes over a store whose first instance may hold no
\* credential, a valid one or a stale one.  The routes share the store only:
\* a behaviour follows the requests to one of them.
CredInit ==
    /\ storedTokens \in {t \in [Instances -> {NULL, "tokens", "expired"}] :
                            t["i2"] = NULL}
    /\ NoRefresh
    /\ CalendarIdle /\ BookIdle /\ AvailIdle
    /\ publicWebhookUrl = NULL /\ TwilioIdle /\ EvoIdle /\ FrontIdle /\ OAuthIdle /\ ClientsIdle

CredNext ==
    \/ AvailIdle /\ BookNext
    \/ BookIdle /\ AvailNext
    \/ \E instance \in Instances :
        \/ RefreshOK(instance)
        \/ RefreshFail(instance)

SpecCred == CredInit /\ [][CredNext]_vars

TwilioInit ==
    /\ storedTokens = [i \in Instances |-> NULL] /\ NoRefresh
    /\ CalendarIdle /\ BookIdle /\ AvailIdle
    /\ publicWebhookUrl \in {NULL, "https://agendo.example/api/webhook"}
    /\ TwilioIdle /\ EvoIdle /\ FrontIdle /\ OAuthIdle /\ ClientsIdle

TwilioNext ==
    \E d \in TwilioIds :
        \/ TwilioPOST(d)
        \/ TwilioSendOK(d)
        \/ TwilioSendFail(d)

SpecTwilio == TwilioInit /\ [][TwilioNext]_vars

WebhookInit ==
    /\ storedTokens = [i \in Instances |-> NULL] /\ NoRefresh
    /\ CalendarIdle /\ BookIdle /\ AvailIdle
    /\ publicWebhookUrl = NULL /\ TwilioIdle /\ EvoIdle /\ FrontIdle /\ OAuthIdle /\ ClientsIdle

EvoNext ==
    \E d \in EvoIds :
        \/ EvoPOST(d)
        \/ EvoProcessed(d)

SpecEvo == WebhookInit /\ [][EvoNext]_vars

FrontNext ==
    \E d \in FrontIds :
        \/ FrontPOST(d)
        \/ FrontFetchDone(d)

SpecFront == WebhookInit /\ [][FrontNext]_vars

OAuthNext ==
    \/ AuthorizeGET
    \/ GoogleConsent
    \/ CallbackGET
    \/ CallbackAwaitOK
    \/ CallbackAwaitFail

SpecOAuth == WebhookInit /\ [][OAuthNext]_vars

\* The three webhooks together.  They share no state, so a behaviour follows
\* the deliveries to one of them.
WebhooksNext ==
    \/ EvoIdle /\ FrontIdle /\ TwilioNext
    \/ TwilioIdle /\ FrontIdle /\ EvoNext
    \/ TwilioIdle /\ EvoIdle /\ FrontNext

SpecWebhooks == TwilioInit /\ [][WebhooksNext]_vars

\* The send routes and the booking route, under every setting of the send
\* routes' environment, the first instance holding a credential.  The routes share no state, so a behaviour follows
\* the requests to the send routes or those to the booking route.
SendInit ==
    /\ storedTokens = [i \in Instances |-> IF i = "i1" THEN "tokens" ELSE NULL]
    /\ NoRefresh
    /\ CalendarIdle /\ BookIdle /\ AvailIdle
    /\ publicWebhookUrl = NULL /\ TwilioIdle /\ EvoIdle /\ FrontIdle /\ OAuthIdle
    /\ sendEnv \in [evolution : BOOLEAN, whatsappFrom : BOOLEAN]
    /\ SendIdle /\ CreateIdle /\ PageIdle

SendRouteNext ==
    \E r \in SendIds :
        \/ SendMalformed(r)
        \/ SendPOST(r)
        \/ SendInstancesDone(r)
        \/ SendVendorOK(r)
        \/ SendVendorFail(r)

SendNext ==
    \/ BookIdle /\ SendRouteNext
    \/ SendIdle /\ BookNext

SpecSend == SendInit /\ [][SendNext]_vars

CreateNext ==
    \E r \in CreateIds :
        \/ CreateMalformed(r)
        \/ CreatePOST(r)
        \/ CreateFetchDone(r)
        \/ CreateWebhookDone(r)
        \/ CreateSyncDone(r)

SpecCreate == WebhookInit /\ [][CreateNext]_vars

PageNext ==
    \/ PageCreateInstance
    \/ PageCreateDone
    \/ PageQRDone
    \/ PollTick
    \/ PollCheckDone

SpecPage == WebhookInit /\ [][PageNext]_vars

\* ---------------------------------------------------------------------
\* Properties of the booking route (SpecBook)
\* ---------------------------------------------------------------------

Confirmed(b) == b.pc = "done" /\ b.status = 200 /\ b.eventId # 0
Conflict(b) == b.pc = "done" /\ b.status = 409

WorkHours == WorkStartHour..(WorkEndHour - 1)

Answered(a) == availReqs[a].pc = "done" /\ availReqs[a].status = 200

\* The candidate slot of hour h is in the answer of request a.
Offered(a, h) ==
    \E i \in DOMAIN availReqs[a].availableSlots :
        /\ availReqs[a].availableSlots[i].start = LocalDate(availReqs[a].date, h, tzOffset)
        /\ availReqs[a].availableSlots[i].end = LocalDate(availReqs[a].date, h + 1, tzOffset)

\* C4: a candidate slot is left out of the available slots iff
\* slot.start < busy.end and slot.end > busy.start for some busy interval;
\* a slot that only touches a busy interval is available.
C4_UnavailableIffOverlap ==
    \A a \in AvailIds :
        Answered(a) =>
            \A h \in WorkHours :
                ~Offered(a, h) <=>
                    \E busy \in availReqs[a].busySlots :
                        /\ LocalDate(availReqs[a].date, h, tzOffset) < busy.end
                        /\ LocalDate(availReqs[a].date, h + 1, tzOffset) > busy.start

\* An answer with an occupied slot, and with an available slot that ends
\* where a busy interval starts and one that starts where a busy interval ends.
C4_Witness ==
    \E a \in AvailIds :
        /\ Answered(a)
        /\ \E h \in WorkHours : ~Offered(a, h)
        /\ \E h \in WorkHours, busy \in availReqs[a].busySlots :
              Offered(a, h) /\ LocalDate(availReqs[a].date, h + 1, tzOffset) = busy.start
        /\ \E h \in WorkHours, busy \in availReqs[a].busySlots :
              Offered(a, h) /\ LocalDate(availReqs[a].date, h, tzOffset) = busy.end

\* C5: the returned slots are sorted ascending by start, no two overlap, and
\* each lies within the working window [09:00, 18:00) of the date.
C5_SortedDisjointInWindow ==
    \A a \in AvailIds :
        Answered(a) =>
            LET slots == availReqs[a].availableSlots
                workStart == ((availReqs[a].date * 24 + WorkStartHour) - tzOffset) * 60
                workEnd == ((availReqs[a].date * 24 + WorkEndHour) - tzOffset) * 60
            IN  /\ \A i, j \in DOMAIN slots :
                      i < j => slots[i].start < slots[j].start
                               /\ slots[i].end <= slots[j].start
                /\ \A i \in DOMAIN slots :
                      /\ workStart <= slots[i].start
                      /\ slots[i].start < slots[i].end
                      /\ slots[i].end <= workEnd

\* An answer with several slots, not all of them adjacent.
C5_Witness ==
    \E a \in AvailIds :
        /\ Answered(a)
        /\ Len(availReqs[a].availableSlots) >= 3
        /\ \E i \in DOMAIN availReqs[a].availableSlots :
              /\ i + 1 \in DOMAIN availReqs[a].availableSlots
              /\ availReqs[a].availableSlots[i].end
                     < availReqs[a].availableSlots[i + 1].start

ScenarioBusy(a) ==
    availReqs[a].busySlots =
        {[start |-> ((availReqs[a].date * 24 + 9) - tzOffset) * 60,
          end |-> ((availReqs[a].date * 24 + 10) - tzOffset) * 60]}

RepliesFor(D) == {i \in DOMAIN twilioMessages : twilioMessages[i].by \in D}

\* C7: the deliveries that carry one message id are processed once and
\* replied to once; a replay is acknowledged without being processed.
C7_ReplayProcessedOnce ==
    \A sid \in MessageSids :
        LET D == {d \in TwilioIds : twilio[d].MessageSid = sid /\ twilio[d].status = 200}
        IN  /\ Cardinality({d \in D : twilio[d].processed}) <= 1
            /\ Cardinality(RepliesFor(D)) <= 1

\* C8: with the webhook URL (and the auth token) configured, a delivery whose
\* request carries no signature that validates is answered 401 and is never
\* processed or replied to.
C8_UnsignedRejected ==
    publicWebhookUrl # NULL =>
        \A d \in TwilioIds :
            (twilio[d].pc # "none" /\ ~validateRequest(twilio[d].signature))
            => /\ twilio[d].status = 401
               /\ ~twilio[d].processed
               /\ RepliesFor({d}) = {}

\* C9: a delivery whose payload cannot be parsed is acknowledged with 200 and
\* dropped; 500 is not the answer to a parse failure.
C9_MalformedAcked200 ==
    \A d \in EvoIds :
        (evo[d].pc # "none" /\ evo[d].body.json = "malformed")
        => evo[d].status = 200 /\ evo[d].log = "none"

\* C10: no webhook handler is waiting on an external HTTP call while its
\* acknowledgment has not been returned.
C10_AckBeforeExternalCalls ==
    /\ \A d \in TwilioIds : twilio[d].pc = "sending" => twilio[d].status # 0
    /\ \A d \in EvoIds : evo[d].pc = "processing" => evo[d].status # 0
    /\ \A d \in FrontIds : front[d].pc = "forwarding" => front[d].status # 0

\* A payload that parsed into an event: a JSON object.
Parsed(body) == body.json = "object"

\* C11: a delivery that passed parsing and the signature check is answered
\* 200 and nothing else, whatever became of the send or the forward it
\* caused: a failed or rejected call neither changes the answer nor leaves
\* the handler through its error path.
C11_AckWhateverDownstream ==
    /\ \A d \in TwilioIds :
          (twilio[d].pc # "none"
           /\ ~signatureRejected(twilio[d].signature, publicWebhookUrl))
          => twilio[d].status = 200
    /\ \A d \in EvoIds :
          (evo[d].pc # "none" /\ Parsed(evo[d].body)) => evo[d].status = 200
    /\ \A d \in FrontIds :
          (front[d].pc # "none" /\ Parsed(front[d].body))
          => /\ front[d].status \in {0, 200}
             /\ front[d].pc = "done" => front[d].status = 200

\* A forward was rejected and the handler has answered.
C11_Witness ==
    \E d \in FrontIds :
        /\ front[d].pc = "done"
        /\ Parsed(front[d].body)
        /\ front[d].lastFetch = "rejected"

KnownEvents == {"connection.update", "messages.upsert", "qrcode.updated"}

ForwardsBy(d) == {i \in DOMAIN frontForwards : frontForwards[i].by = d}

\* C12: a delivery whose event is none of connection update, message and QR
\* update is answered 200, is logged as unhandled, and causes no send and no
\* forward.
C12_UnknownEventDropped ==
    /\ \A d \in EvoIds :
          (evo[d].pc # "none" /\ Parsed(evo[d].body)
           /\ evo[d].body.event \notin KnownEvents)
          => /\ evo[d].pc = "done"
             /\ evo[d].status = 200
             /\ evo[d].log = "unhandled"
             /\ evo[d].logged = 0
    /\ evoSends = <<>>
    /\ \A d \in FrontIds :
          (front[d].pc # "none" /\ Parsed(front[d].body)
           /\ front[d].body.event \notin KnownEvents)
          => /\ front[d].pc = "done"
             /\ front[d].status = 200
             /\ ForwardsBy(d) = {}

\* An unknown event that carries an incoming text message has been answered.
C12_Witness ==
    \E d \in FrontIds :
        /\ front[d].pc = "done"
        /\ front[d].body.event \notin KnownEvents
        /\ \E i \in DOMAIN front[d].body.messages : forwarded(front[d].body.messages[i])

\* The position of the reply to delivery d among the replies sent, 0 if none.
ReplyPos(d) ==
    IF RepliesFor({d}) = {} THEN 0 ELSE CHOOSE i \in RepliesFor({d}) : TRUE

\* C13: for two accepted deliveries of one sender, the processing of the one
\* that arrived first (its reply included) is over before the processing of
\* the second begins, and the replies are sent in the order of arrival.
C13_FifoPerSender ==
    \A a, b \in TwilioIds :
        (/\ a < b
         /\ twilio[a].processed /\ twilio[b].processed
         /\ twilio[a].From # NULL /\ twilio[a].From = twilio[b].From)
        => /\ twilio[a].pc = "done"
           /\ (ReplyPos(a) # 0 /\ ReplyPos(b) # 0) => ReplyPos(a) < ReplyPos(b)

\* C17: with no webhook URL configured for the signature check, every Twilio
\* delivery is answered 200 and processed, whatever its signature header; the
\* Evolution webhook, which checks nothing, answers 200 to and processes
\* every delivery that parsed.
C17_UnverifiedAccepted ==
    /\ publicWebhookUrl = NULL =>
          \A d \in TwilioIds :
              twilio[d].pc # "none" => twilio[d].status = 200 /\ twilio[d].processed
    /\ \A d \in EvoIds :
          (evo[d].pc # "none" /\ Parsed(evo[d].body))
          => evo[d].status = 200 /\ evo[d].log # "none"

\* Without a webhook URL, a delivery with a wrong signature and one with no
\* signature have been answered, and the first has been replied to.
C17_Witness ==
    /\ publicWebhookUrl = NULL
    /\ \E a, b \in TwilioIds :
          /\ twilio[a].pc = "done" /\ twilio[a].signature = "invalid"
          /\ RepliesFor({a}) # {}
          /\ twilio[b].pc = "done" /\ twilio[b].signature = "none"

\* The forwards of delivery d whose payload carries the message at position m
\* of the delivery.
ForwardsOf(d, m) ==
    {i \in ForwardsBy(d) : m \in DOMAIN frontForwards[i].payload}

\* C19: every message of a delivery goes out at most once: no message is
\* carried by two forwards, and no delivery is replied to twice.
C19_EachMessageOnce ==
    /\ \A d \in FrontIds : \A m \in DOMAIN front[d].body.messages :
          Cardinality(ForwardsOf(d, m)) <= 1
    /\ \A d \in TwilioIds : Cardinality(RepliesFor({d})) <= 1

\* The calendar calls made for a request.
CallsBy(who) == {i \in DOMAIN calendarLog : calendarLog[i].by = who}

\* A request of one of the calendar routes that got as far as asking the
\* store for the instance's token has neither called the calendar nor been
\* answered anything but 401.
NotConnected(req, who) ==
    /\ req.pc \in {"tokens", "refresh", "done"}
    /\ req.pc = "done" => req.status = 401
    /\ CallsBy(who) = {}

Awaiting(instance) == {r \in BookIds : AwaitsRefresh(bookings[r], instance)}

C16_FailedFetchIsError ==
    \A a \in AvailIds :
        (\E i \in CallsBy(<<"avail", a>>) : ~calendarLog[i].ok)
        => /\ availReqs[a].status = 500
           /\ availReqs[a].availableSlots = <<>>

\* A fetch failed for a calendar that has events, and the request is answered.
C16_Witness ==
    \E a \in AvailIds :
        /\ availReqs[a].pc = "done"
        /\ \E i \in CallsBy(<<"avail", a>>) : ~calendarLog[i].ok
        /\ eventsList(availReqs[a].instance, availReqs[a].date) # {}

RedirectInstance == searchParamsGet(oauth.redirect, "instance=")

\* C18: the state of the authorization URL, come back to the callback,
\* yields the instance id that was given to the authorize route, and the
\* callback keeps the credentials for that instance and redirects to it.
C18_StateRoundTrip ==
    /\ oauth.pc \in {"getToken", "userinfo", "calendarList"}
       => (IF oauth.app = "app" THEN oauth.state ELSE oauth.instanceName)
              = oauth.instance
    /\ oauth.credentials # <<>> => oauth.credentials = oauth.instance
    /\ RedirectInstance # <<>> => RedirectInstance = oauth.instance

\* C23: no request to the backend carries the content of a message sent by
\* the instance itself.
C23_OwnMessagesNotForwarded ==
    \A i \in DOMAIN frontForwards :
        \A m \in DOMAIN frontForwards[i].payload :
            ~(frontForwards[i].payload[m].fromMe
              /\ frontForwards[i].payload[m].content # NULL)

\* C25: an accepted delivery with a From field has caused one call of
\* client.messages.create, addressed to that From, and at most one reply,
\* to that From; a delivery without From, or a rejected one, has caused none.
C25_OneReplyToSender ==
    \A d \in TwilioIds :
        twilio[d].pc # "none"
        => IF twilio[d].status = 200 /\ twilio[d].From # NULL
           THEN /\ twilio[d].sends = 1
                /\ twilio[d].sendTo = twilio[d].From
                /\ Cardinality(RepliesFor({d})) <= 1
                /\ \A i \in RepliesFor({d}) : twilioMessages[i].to = twilio[d].From
           ELSE /\ twilio[d].sends = 0
                /\ RepliesFor({d}) = {}

\* A delivery has been replied to, and one without From has been answered.
C25_Witness ==
    \E a, c \in TwilioIds :
        /\ twilio[a].From # NULL /\ RepliesFor({a}) # {}
        /\ twilio[c].pc = "done" /\ twilio[c].status = 200 /\ twilio[c].From = NULL

\* C26: the Evolution webhook sends nothing, whatever it is delivered, and a
\* connection or QR event is over with its answer: it leaves nothing pending
\* and logs no message.
C26_NoAutoReply ==
    /\ evoSends = <<>>
    /\ \A d \in EvoIds :
          (evo[d].pc # "none" /\ Parsed(evo[d].body)
           /\ evo[d].body.event \in {"connection.update", "qrcode.updated"})
          => evo[d].pc = "done" /\ evo[d].logged = 0

\* A direct text message has been handled and logged, and a connection
\* event has been answered.
C26_Witness ==
    \E d, e \in EvoIds :
        /\ evo[d].pc = "done" /\ evo[d].logged > 0
        /\ evo[e].pc = "done" /\ Parsed(evo[e].body)
        /\ evo[e].body.event = "connection.update"

\* The length of a slot in minutes: from `hour` to `hour + 1`.
SlotMinutes == 60

LacksField(s) ==
    s.pc # "none" /\ s.json /\ (s.to \in {NULL, ""} \/ s.text \in {NULL, ""})

\* A booking request whose body was read as JSON and lacks a required field.
LacksBookingField(b) ==
    /\ b.pc # "none" /\ b.parsed
    /\ (b.instance = NULL \/ b.title = NULL \/ b.startTime = NoTime
        \/ b.endTime = NoTime)

\* No call went out for the request and it was answered `st`.
RefusedUnsent(s, st) == s.pc = "done" /\ s.status = st /\ s.calls = 0

BookingRefusedUnsent(r) ==
    /\ bookings[r].pc = "done" /\ bookings[r].status = 400
    /\ CallsBy(<<"book", r>>) = {}

\* C27 as stated: a send or booking request that lacks a required field is
\* answered 400 and causes no call to the messaging vendor or the calendar.
C27_MissingFieldIs400 ==
    /\ \A r \in SendIds :
          LacksField(sendReqs[r]) => RefusedUnsent(sendReqs[r], 400)
    /\ \A r \in BookIds :
          LacksBookingField(bookings[r]) => BookingRefusedUnsent(r)

\* C27: a send or booking request that lacks a required field causes no call
\* to the messaging vendor or the calendar and is answered 400, except that
\* the frontend send route answers 500 to every request while the gateway's
\* URL or key is not configured.
C27_MissingFieldRefusedUnsent ==
    /\ \A r \in SendIds :
          LacksField(sendReqs[r])
          => RefusedUnsent(sendReqs[r],
                 IF sendReqs[r].route = "frontend" /\ ~sendEnv.evolution
                 THEN 500 ELSE 400)
    /\ \A r \in BookIds :
          LacksBookingField(bookings[r]) => BookingRefusedUnsent(r)

\* One request without text has been refused with 400 while another, with
\* both fields, went out to the vendor.
C27_Witness ==
    \E a, c \in SendIds :
        /\ LacksField(sendReqs[a]) /\ sendReqs[a].to = "x"
        /\ sendReqs[a].status = 400
        /\ sendReqs[c].route = sendReqs[a].route
        /\ sendReqs[c].calls = 1 /\ sendReqs[c].status = 200

\* The outbound calls of instance creation, in the order of the handler.
CreationCalls == <<"create", "webhook", "sync">>

\* C28: the webhook configuration and the backend sync are called only after
\* the gateway's create call succeeded, in that order, and the answer is a
\* success exactly when the create call succeeded, whatever became of the
\* two later calls.
C28_SuccessIffCreated ==
    \A r \in CreateIds :
        LET c == creates[r]
        IN  /\ \E n \in 0..Len(CreationCalls) : c.calls = SubSeq(CreationCalls, 1, n)
            /\ Len(c.calls) >= 2 => c.create = "ok"
            /\ c.pc = "done" => (c.status = 200 <=> c.create = "ok")

\* An instance was created, its webhook configuration rejected, its sync
\* was refused by the backend, and the request was answered with success.
C28_Witness ==
    \E r \in CreateIds :
        /\ creates[r].pc = "done" /\ creates[r].status = 200
        /\ creates[r].webhook = "rejected" /\ creates[r].sync = "notok"
        /\ creates[r].calls = CreationCalls

\* ---------------------------------------------------------------------
\* Properties of the connect page (SpecPage)
\* ---------------------------------------------------------------------

\* C29: a state check is started only while the poll counter is below
\* maxPolls and no check has reported that polling should stop, so that at
\* most maxPolls checks are ever started.
C29_NoCheckPastLimit ==
    [][page'.pollCount > page.pollCount
       => (page.pollCount < maxPolls(page.app) /\ ~page.stopped)]_vars

\* C30: once a check has observed 'open' and set the status to 'connected',
\* the status is not 'error'.
C30_ConnectedNeverError == page.opened => page.status # "error"

====
